---- MODULE Spec2Model ----
(***************************************************************************)
(* Model of goplus/dql, package html: lazy NodeSet / ValueSet query sets   *)
(* built from push iterators (iter.Seq), their combinators (XGo_Node,      *)
(* XGo_Child, XGo_Any, XGo_Attr) and reducers (XGo_Enum, XGo_0, XGo_1).    *)
(*                                                                         *)
(* A set is a record [kind, Err, Data].  Data is NilData (a nil func) or   *)
(* the closure chain [base, ops]: the node sequence of the root producer   *)
(* and the combinators stacked on it.  One run of a producer is computed   *)
(* by Yield, which pushes one item into level l of the chain exactly as    *)
(* the nested callbacks of the source do, threading the per-run locals and *)
(* an observation log through every call.                                  *)
(***************************************************************************)
EXTENDS Integers, Sequences, FiniteSets, TLC

\* --------------------------------------------------------------- bounds
MaxBase == 2      \* longest node sequence handed to Source
MaxChain == 2     \* most combinators applied to one set
MaxTake == 1      \* an enumerating caller stops after at most this many items
MaxRuns == 2      \* most producer runs in one behaviour

\* --------------------------------------------------------------- errors
NoErr == "nil"
ErrNotFound == "entity not found"
ErrMultiEntities == "too many entities found"
ParseError == "parse error"
OpenError == "open error"
UserError == "user error"

\* ------------------------------------------------------------ document
\* One parsed document, nodes numbered in document order:
\*   1 #document
\*   2   <a>
\*   3     <b>
\*   4       <a x="t">
\*   5     <b y="w" x="v" x="u">
\*   6     text "b"
Nodes == 1..6
NilNode == 0
DocRoot == 1

NodeType ==
  <<"Document", "Element", "Element", "Element", "Element", "Text">>

NodeData == <<"", "a", "b", "a", "b", "b">>

NodeAttr ==
  << <<>>, <<>>, <<>>,
     <<[Key |-> "x", Val |-> "t"]>>,
     <<[Key |-> "y", Val |-> "w"], [Key |-> "x", Val |-> "v"],
       [Key |-> "x", Val |-> "u"]>>,
     <<>> >>

FirstChild == <<2, 3, 4, 0, 0, 0>>

NextSibling == <<0, 0, 5, 0, 6, 0>>

Parent == <<0, 1, 2, 3, 2, 2>>

\* The nodes a caller's own node sequence is drawn from: an element with
\* children and a leaf element with attributes, the second nested in the
\* first.
InputNodes == {2, 5}

TagNames == {"a", "b"}
AttrNames == {"x", "y"}

\* ---------------------------------------------------------------- sets
\* Data is a func value: the root producer (a node sequence, or a nil func)
\* and the combinator callbacks stacked on it.  It is a nil func exactly
\* when the root is nil and nothing is stacked on it.
NilData == [rootNil |-> TRUE, base |-> <<>>, ops |-> <<>>]

SeqData(s) == [rootNil |-> FALSE, base |-> s, ops |-> <<>>]

NodeSet(data, err) == [kind |-> "NodeSet", Data |-> data, Err |-> err]

ValueSet(data, err) == [kind |-> "ValueSet", Data |-> data, Err |-> err]

NoSet == [kind |-> "none", Data |-> NilData, Err |-> NoErr]

\* The closure a combinator returns: the receiver's producer with one more
\* callback stacked on it.
Wrap(p, o) ==
  [rootNil |-> p.Data.rootNil, base |-> p.Data.base, ops |-> Append(p.Data.ops, o)]

Value(x0, x1) == [X_0 |-> x0, X_1 |-> x1]

ZeroVal(kind) == IF kind = "NodeSet" THEN NilNode ELSE ""

\* ------------------------------------------------------------ one run
\* Level l of a run is the callback of ops[l]; level Len(ops)+1 is the
\* consumer that drives the run (a reducer's callback or the caller's loop).
Levels == 1..(MaxChain + 1)

Top(q) == Len(q.ops) + 1

\* Locals and observations of one run.  val, err, first are the reducer's
\* locals; ok[l] is the local ok of the XGo_Child / XGo_Any closure at level
\* l.  seen[l] lists the items handed to level l, stopped[l] tells that the
\* level-l callback has returned false, lateCalls[l] counts calls of level l
\* made after it returned false, lateVisits[l] counts calls of level l made
\* after the level above it returned false.
NewRun(q) ==
  [seen |-> [l \in Levels |-> <<>>],
   stopped |-> [l \in Levels |-> FALSE],
   lateCalls |-> [l \in Levels |-> 0],
   lateVisits |-> [l \in Levels |-> 0],
   ok |-> [l \in Levels |-> TRUE],
   val |-> ZeroVal(q.kind),
   err |-> ErrNotFound,
   first |-> TRUE,
   invoked |-> 0,
   panic |-> FALSE]

Enter(q, l, item, st) ==
  [st EXCEPT !.seen[l] = Append(@, item),
             !.lateCalls[l] = @ + (IF st.stopped[l] THEN 1 ELSE 0),
             !.lateVisits[l] =
                @ + (IF l < Top(q) /\ st.stopped[l + 1] THEN 1 ELSE 0)]

Leave(l, r) ==
  [st |-> [r.st EXCEPT !.stopped[l] = @ \/ ~r.cont], cont |-> r.cont]

RECURSIVE Yield(_, _, _, _)

\* func(c *Node) bool { ok = yield(c); return ok }
InnerYield(q, l, c, st) ==
  LET r == Yield(q, l + 1, c, st)
  IN [st |-> [r.st EXCEPT !.ok[l] = r.cont], cont |-> r.cont]

\* node.ChildNodes(): for c := n.FirstChild; c != nil; c = c.NextSibling
\* { if !yield(c) { return } }
RECURSIVE ChildNodes(_, _, _, _)
ChildNodes(q, l, c, st) ==
  IF c = NilNode THEN st
  ELSE LET r == InnerYield(q, l, c, st)
       IN IF ~r.cont THEN r.st ELSE ChildNodes(q, l, NextSibling[c], r.st)

\* node.Descendants(): for c := range n.ChildNodes()
\* { if !yield(c) || !c.descendants(yield) { return false } }; return true
RECURSIVE descendants(_, _, _, _)
descendants(q, l, c, st) ==
  IF c = NilNode THEN [st |-> st, cont |-> TRUE]
  ELSE LET r == InnerYield(q, l, c, st)
       IN IF ~r.cont THEN [st |-> r.st, cont |-> FALSE]
          ELSE LET d == descendants(q, l, FirstChild[c], r.st)
               IN IF ~d.cont THEN [st |-> d.st, cont |-> FALSE]
                  ELSE descendants(q, l, NextSibling[c], d.st)

\* XGo_Node's callback comparing the name without looking at the node type.
NodeCallback_AnyType(q, l, node, st) ==
  IF NodeData[node] = q.ops[l].name
  THEN Yield(q, l + 1, node, st)
  ELSE [st |-> st, cont |-> TRUE]

\* XGo_Node's callback.
NodeCallback(q, l, node, st) ==
  IF NodeType[node] = "Element" /\ NodeData[node] = q.ops[l].name
  THEN Yield(q, l + 1, node, st)
  ELSE [st |-> st, cont |-> TRUE]

\* XGo_Child's callback ending the run at a node without children.
ChildCallback_StopOnEmpty(q, l, node, st) ==
  LET st2 == ChildNodes(q, l, FirstChild[node], st)
  IN [st |-> st2, cont |-> st2.ok[l] /\ FirstChild[node] # NilNode]

\* XGo_Child's callback returning true whatever ok holds.
ChildCallback_IgnoreStop(q, l, node, st) ==
  [st |-> ChildNodes(q, l, FirstChild[node], st), cont |-> TRUE]

\* XGo_Child's callback.
ChildCallback(q, l, node, st) ==
  LET st2 == ChildNodes(q, l, FirstChild[node], st)
  IN [st |-> st2, cont |-> st2.ok[l]]

\* XGo_Any's callback walking the node's children instead of its descendants.
AnyCallback_ChildrenOnly(q, l, node, st) ==
  LET r == Yield(q, l + 1, node, st)
      st1 == [r.st EXCEPT !.ok[l] = r.cont]
  IN IF st1.ok[l]
     THEN LET st2 == ChildNodes(q, l, FirstChild[node], st1)
          IN [st |-> st2, cont |-> st2.ok[l]]
     ELSE [st |-> st1, cont |-> st1.ok[l]]

\* XGo_Any's callback.
AnyCallback(q, l, node, st) ==
  LET r == Yield(q, l + 1, node, st)
      st1 == [r.st EXCEPT !.ok[l] = r.cont]
  IN IF st1.ok[l]
     THEN LET d == descendants(q, l, FirstChild[node], st1)
          IN [st |-> d.st, cont |-> d.st.ok[l]]
     ELSE [st |-> st1, cont |-> st1.ok[l]]

\* The attribute lookup taking the last attribute of that key.
FindAttr_LastMatch(attrs, name) ==
  LET idx == {i \in DOMAIN attrs : attrs[i].Key = name}
  IN IF idx = {} THEN [found |-> FALSE, Val |-> ""]
     ELSE [found |-> TRUE, Val |-> attrs[CHOOSE i \in idx : \A j \in idx : j <= i].Val]

\* for _, attr := range node.Attr { if attr.Key == name { ... } }
RECURSIVE FindAttr(_, _)
FindAttr(attrs, name) ==
  IF attrs = <<>> THEN [found |-> FALSE, Val |-> ""]
  ELSE IF Head(attrs).Key = name THEN [found |-> TRUE, Val |-> Head(attrs).Val]
  ELSE FindAttr(Tail(attrs), name)

\* XGo_Attr's callback.
AttrCallback(q, l, node, st) ==
  LET a == FindAttr(NodeAttr[node], q.ops[l].name)
  IN IF a.found
     THEN Yield(q, l + 1, Value(a.Val, NoErr), st)
     ELSE [st |-> Yield(q, l + 1, Value("", ErrNotFound), st).st, cont |-> TRUE]

\* NodeSet.XGo_0's callback.
NodeSetFirst(n, st) ==
  [st |-> [st EXCEPT !.val = n, !.err = NoErr], cont |-> FALSE]

\* ValueSet.XGo_0's callback.
ValueSetFirst(v, st) ==
  [st |-> [st EXCEPT !.val = v.X_0, !.err = v.X_1], cont |-> FALSE]

\* NodeSet.XGo_1's callback.
NodeSetUnique(n, st) ==
  IF st.first
  THEN [st |-> [st EXCEPT !.val = n, !.err = NoErr, !.first = FALSE], cont |-> TRUE]
  ELSE [st |-> [st EXCEPT !.err = ErrMultiEntities], cont |-> FALSE]

\* ValueSet.XGo_1's callback letting items that carry an error pass uncounted.
ValueSetUnique_SuccessOnly(v, st) ==
  IF v.X_1 # NoErr /\ ~st.first THEN [st |-> st, cont |-> TRUE]
  ELSE IF st.first
  THEN [st |-> [st EXCEPT !.val = v.X_0, !.err = v.X_1, !.first = (v.X_1 # NoErr)],
        cont |-> TRUE]
  ELSE [st |-> [st EXCEPT !.err = ErrMultiEntities], cont |-> FALSE]

\* ValueSet.XGo_1's callback.
ValueSetUnique(v, st) ==
  IF st.first
  THEN [st |-> [st EXCEPT !.val = v.X_0, !.err = v.X_1, !.first = FALSE],
        cont |-> TRUE]
  ELSE [st |-> [st EXCEPT !.err = ErrMultiEntities], cont |-> FALSE]

\* util.ValueSet[T].XGo_0's callback.
UtilValueSetFirst(v, st) ==
  [st |-> [st EXCEPT !.val = v.X_0, !.err = v.X_1], cont |-> FALSE]

\* util.ValueSet[T].XGo_1's callback clearing val when a second item comes.
UtilValueSetUnique_ClearsVal(v, st) ==
  IF st.first
  THEN [st |-> [st EXCEPT !.val = v.X_0, !.err = v.X_1, !.first = FALSE],
        cont |-> TRUE]
  ELSE [st |-> [st EXCEPT !.val = "", !.err = ErrMultiEntities], cont |-> FALSE]

\* util.ValueSet[T].XGo_1's callback.
UtilValueSetUnique(v, st) ==
  IF st.first
  THEN [st |-> [st EXCEPT !.val = v.X_0, !.err = v.X_1, !.first = FALSE],
        cont |-> TRUE]
  ELSE [st |-> [st EXCEPT !.err = ErrMultiEntities], cont |-> FALSE]

\* The caller driving an enumerated sequence: it takes q.k items and then
\* returns false (q.k = 0: it never stops).
EnumConsumer(q, st) ==
  [st |-> st, cont |-> (q.k = 0 \/ Len(st.seen[Top(q)]) < q.k)]

Consume(q, item, st) ==
  CASE q.term = "XGo_0" /\ q.kind = "NodeSet" -> NodeSetFirst(item, st)
    [] q.term = "XGo_0" /\ q.kind = "ValueSet" -> ValueSetFirst(item, st)
    [] q.term = "XGo_1" /\ q.kind = "NodeSet" -> NodeSetUnique(item, st)
    [] q.term = "XGo_1" /\ q.kind = "ValueSet" -> ValueSetUnique(item, st)
    [] q.term = "XGo_0" /\ q.kind = "util.ValueSet" -> UtilValueSetFirst(item, st)
    [] q.term = "XGo_1" /\ q.kind = "util.ValueSet" -> UtilValueSetUnique(item, st)
    [] OTHER -> EnumConsumer(q, st)

\* One call of the level-l callback with item.
Yield(q, l, item, st) ==
  LET st1 == Enter(q, l, item, st)
      r == IF l = Top(q) THEN Consume(q, item, st1)
           ELSE CASE q.ops[l].op = "Node" -> NodeCallback(q, l, item, st1)
                  [] q.ops[l].op = "Child" -> ChildCallback(q, l, item, st1)
                  [] q.ops[l].op = "Any" -> AnyCallback(q, l, item, st1)
                  [] OTHER -> AttrCallback(q, l, item, st1)
  IN Leave(l, r)

\* The root producer: New's single yield(doc), or the node sequence given
\* to Source, which stops at the first false.
RECURSIVE RootSeq(_, _, _)
RootSeq(q, s, st) ==
  IF s = <<>> THEN st
  ELSE LET r == Yield(q, 1, Head(s), st)
       IN IF ~r.cont THEN r.st ELSE RootSeq(q, Tail(s), r.st)

\* p.Data(callback): every stacked closure calls its receiver's Data at
\* once, so the root producer is the first code to run; calling a nil func
\* panics.
Produce(q, st) ==
  IF q.rootNil THEN [st EXCEPT !.panic = TRUE]
  ELSE RootSeq(q, q.base, [st EXCEPT !.invoked = @ + 1])

Query(p, term, k) ==
  [kind |-> p.kind, rootNil |-> p.Data.rootNil, base |-> p.Data.base,
   ops |-> p.Data.ops, term |-> term, k |-> k]

\* ------------------------------------------------------------- inputs
RECURSIVE SeqsUpTo(_, _)
SeqsUpTo(S, n) ==
  IF n = 0 THEN {<<>>}
  ELSE LET shorter == SeqsUpTo(S, n - 1)
       IN shorter \cup {Append(s, x) : s \in {t \in shorter : Len(t) = n - 1}, x \in S}

\* The iter.Seq[*Node] values a caller hands to Source: a nil func, or a
\* well-behaved sequence over some nodes of the document.
SeqInputs == {NilData} \cup {SeqData(s) : s \in SeqsUpTo(InputNodes, MaxBase)}

\* The values of Source's parameter r, by dynamic type.  openErr and
\* parseErr are the outcomes of stream.Open and html.Parse on that source.
SourceInputs ==
  [type : {"string"}, openErr : {NoErr, OpenError}, parseErr : {NoErr, ParseError},
   data : {NilData}, err : {NoErr}]
  \cup [type : {"bytes", "reader"}, openErr : {NoErr}, parseErr : {NoErr, ParseError},
        data : {NilData}, err : {NoErr}]
  \cup [type : {"seq"}, openErr : {NoErr}, parseErr : {NoErr},
        data : SeqInputs, err : {NoErr}]
  \cup [type : {"NodeSet"}, openErr : {NoErr}, parseErr : {NoErr},
        data : SeqInputs, err : {NoErr, UserError}]
  \cup [type : {"other"}, openErr : {NoErr}, parseErr : {NoErr},
        data : {NilData}, err : {NoErr}]

Op(o, name) == [op |-> o, name |-> name]

\* --------------------------------------------------------------- state
VARIABLES
  input,     \* the argument New or Source was called with
  origin,    \* the set New or Source returned
  set,       \* the set the query expression has built so far
  chain,     \* the combinators applied since construction
  enum,      \* the sequence XGo_Enum last returned
  last,      \* the last reducer call or driven enumeration and its run
  invoked,   \* how many times the root producer has been invoked
  io,        \* calls made to the external opener and parser
  panicked,  \* the program has panicked
  uenum,     \* the sequence util.ValueSet's XGo_Enum last returned
  ulast      \* the last reducer call on the util.ValueSet twin of set

vars == <<input, origin, set, chain, enum, last, invoked, io, panicked, uenum, ulast>>

\* The argument of New: a reader, on which html.Parse returns perr.
ReaderInput(perr) ==
  [type |-> "reader", openErr |-> NoErr, parseErr |-> perr, data |-> NilData,
   err |-> NoErr]

NoInput ==
  [type |-> "none", openErr |-> NoErr, parseErr |-> NoErr, data |-> NilData,
   err |-> NoErr]

NoEnum == [valid |-> FALSE, nop |-> TRUE, kind |-> "none", Data |-> NilData]

NoLast ==
  [op |-> "none", k |-> 0, kind |-> "none", val |-> NilNode, err |-> NoErr,
   st |-> NewRun([kind |-> "NodeSet"])]

Init ==
  /\ input = NoInput
  /\ origin = NoSet
  /\ set = NoSet
  /\ chain = <<>>
  /\ enum = NoEnum
  /\ last = NoLast
  /\ invoked = 0
  /\ io = <<>>
  /\ panicked = FALSE
  /\ uenum = NoEnum
  /\ ulast = NoLast

\* ------------------------------------------------------- construction
\* New returning the one-item set whatever html.Parse returned.
NewSet_DropsError(perr) == NodeSet(SeqData(<<DocRoot>>), NoErr)

\* New: html.Parse(r), then the failed set or the one-item set of the root.
NewSet(perr) ==
  IF perr # NoErr THEN NodeSet(NilData, perr)
  ELSE NodeSet(SeqData(<<DocRoot>>), NoErr)

New(perr) ==
  /\ set.kind = "none" /\ ~panicked
  /\ set' = NewSet(perr)
  /\ origin' = set'
  /\ input' = ReaderInput(perr)
  /\ io' = Append(io, "parse")
  /\ UNCHANGED <<chain, enum, last, invoked, panicked, uenum, ulast>>

\* Source rebuilding a NodeSet argument from its Data alone.
SourceSet_DropsErr(r) ==
  CASE r.type = "string" ->
         IF r.openErr # NoErr THEN NodeSet(NilData, r.openErr) ELSE NewSet(r.parseErr)
    [] r.type \in {"bytes", "reader"} -> NewSet(r.parseErr)
    [] r.type \in {"seq", "NodeSet"} -> NodeSet(r.data, NoErr)
    [] OTHER -> NoSet

SourceSet(r) ==
  CASE r.type = "string" ->
         IF r.openErr # NoErr THEN NodeSet(NilData, r.openErr) ELSE NewSet(r.parseErr)
    [] r.type \in {"bytes", "reader"} -> NewSet(r.parseErr)
    [] r.type = "seq" -> NodeSet(r.data, NoErr)
    [] r.type = "NodeSet" -> NodeSet(r.data, r.err)
    [] OTHER -> NoSet

\* Source closing the stream only after a successful parse.
SourceIO_LeakOnParseError(r) ==
  CASE r.type = "string" ->
         IF r.openErr # NoErr THEN <<"open">>
         ELSE IF r.parseErr # NoErr THEN <<"open", "parse">>
         ELSE <<"open", "parse", "close">>
    [] r.type \in {"bytes", "reader"} -> <<"parse">>
    [] OTHER -> <<>>

SourceIO(r) ==
  CASE r.type = "string" ->
         IF r.openErr # NoErr THEN <<"open">> ELSE <<"open", "parse", "close">>
    [] r.type \in {"bytes", "reader"} -> <<"parse">>
    [] OTHER -> <<>>

Source(r) ==
  /\ set.kind = "none" /\ ~panicked
  /\ set' = SourceSet(r)
  /\ origin' = set'
  /\ io' = io \o SourceIO(r)
  /\ input' = r
  /\ panicked' = (r.type = "other")
  /\ UNCHANGED <<chain, enum, last, invoked, uenum, ulast>>

\* -------------------------------------------------------- combinators
NodeSet_XGo_Node(p, name) ==
  IF p.Err # NoErr THEN p ELSE NodeSet(Wrap(p, Op("Node", name)), NoErr)

\* XGo_Child without its p.Err check.
NodeSet_XGo_Child_Unchecked(p) == NodeSet(Wrap(p, Op("Child", "")), NoErr)

NodeSet_XGo_Child(p) ==
  IF p.Err # NoErr THEN p ELSE NodeSet(Wrap(p, Op("Child", "")), NoErr)

\* XGo_Any collecting the nodes when it is called.
NodeSet_XGo_Any_Eager(p) ==
  IF p.Err # NoErr THEN p
  ELSE LET q == Query(NodeSet(Wrap(p, Op("Any", "")), NoErr), "Drive", 0)
       IN NodeSet(SeqData(Produce(q, NewRun(q)).seen[Top(q)]), NoErr)

NodeSet_XGo_Any(p) ==
  IF p.Err # NoErr THEN p ELSE NodeSet(Wrap(p, Op("Any", "")), NoErr)

NodeSet_XGo_Attr(p, name) ==
  IF p.Err # NoErr THEN ValueSet(NilData, p.Err)
  ELSE ValueSet(Wrap(p, Op("Attr", name)), NoErr)

Combine(o, result) ==
  /\ set.kind = "NodeSet" /\ ~panicked
  /\ Len(chain) < MaxChain
  /\ set' = result
  /\ chain' = Append(chain, o)
  /\ enum' = NoEnum
  /\ last' = NoLast
  /\ UNCHANGED <<input, origin, invoked, io, panicked, uenum, ulast>>

XGo_Node(name) == Combine(Op("Node", name), NodeSet_XGo_Node(set, name))

XGo_Child == Combine(Op("Child", ""), NodeSet_XGo_Child(set))

XGo_Any == Combine(Op("Any", ""), NodeSet_XGo_Any(set))

XGo_Attr(name) == Combine(Op("Attr", name), NodeSet_XGo_Attr(set, name))

\* ----------------------------------------------------------- reducers
\* What a reducer call leaves behind: its results and the run it drove.
Outcome(op, k, kind, val, err, st) ==
  [op |-> op, k |-> k, kind |-> kind, val |-> val, err |-> err, st |-> st]

\* XGo_0 of NodeSet and of ValueSet.
First(p) ==
  LET q == Query(p, "XGo_0", 0)
  IN IF p.Err # NoErr
     THEN Outcome("XGo_0", 0, p.kind, ZeroVal(p.kind), p.Err, NewRun(q))
     ELSE LET st == Produce(q, NewRun(q))
          IN Outcome("XGo_0", 0, p.kind, st.val, st.err, st)

\* XGo_1 keeping its flag first from one call to the next.
Unique_Stale(p) ==
  LET q == Query(p, "XGo_1", 0)
  IN IF p.Err # NoErr
     THEN Outcome("XGo_1", 0, p.kind, ZeroVal(p.kind), p.Err, NewRun(q))
     ELSE LET st == Produce(q, [NewRun(q) EXCEPT !.first = last.st.first])
          IN Outcome("XGo_1", 0, p.kind, st.val, st.err, st)

\* XGo_1 of NodeSet and of ValueSet.
Unique(p) ==
  LET q == Query(p, "XGo_1", 0)
  IN IF p.Err # NoErr
     THEN Outcome("XGo_1", 0, p.kind, ZeroVal(p.kind), p.Err, NewRun(q))
     ELSE LET st == Produce(q, NewRun(q))
          IN Outcome("XGo_1", 0, p.kind, st.val, st.err, st)

\* XGo_Enum of NodeSet and of ValueSet: nopIter when failed, else Data.
Enum(p) ==
  IF p.Err # NoErr
  THEN [valid |-> TRUE, nop |-> TRUE, kind |-> p.kind, Data |-> NilData]
  ELSE [valid |-> TRUE, nop |-> FALSE, kind |-> p.kind, Data |-> p.Data]

\* The caller ranging over an enumerated sequence, taking k items (all of
\* them when k = 0).
Drive(e, k) ==
  LET q == Query(e, "Drive", k)
  IN IF e.nop THEN Outcome("Drive", k, e.kind, ZeroVal(e.kind), NoErr, NewRun(q))
     ELSE LET st == Produce(q, NewRun(q))
          IN Outcome("Drive", k, e.kind, ZeroVal(e.kind), NoErr, st)

Reduce(o) ==
  /\ ~panicked
  /\ invoked < MaxRuns
  /\ last' = IF o.st.panic THEN NoLast ELSE o
  /\ invoked' = invoked + o.st.invoked
  /\ panicked' = o.st.panic
  /\ UNCHANGED <<input, origin, set, chain, enum, io, uenum, ulast>>

XGo_0 == set.kind # "none" /\ Reduce(First(set))

XGo_1 == set.kind # "none" /\ Reduce(Unique(set))

XGo_Enum ==
  /\ set.kind # "none" /\ ~panicked
  /\ enum' = Enum(set)
  /\ UNCHANGED <<input, origin, set, chain, last, invoked, io, panicked, uenum, ulast>>

Range(k) == enum.valid /\ Reduce(Drive(enum, k))

Next ==
  \/ \E perr \in {NoErr, ParseError} : New(perr)
  \/ \E r \in SourceInputs : Source(r)
  \/ \E name \in TagNames : XGo_Node(name)
  \/ XGo_Child
  \/ XGo_Any
  \/ \E name \in AttrNames : XGo_Attr(name)
  \/ XGo_0
  \/ XGo_1
  \/ XGo_Enum
  \/ \E k \in 0..MaxTake : Range(k)

Spec == Init /\ [][Next]_vars

\* ------------------------------------------------- package util twin
\* util.ValueSet[string]{Data: p.Data, Err: p.Err}: Value[string] and
\* html's Value are the same struct type, so a ValueSet's fields fit as
\* they are.
Twin(p) == [kind |-> "util.ValueSet", Data |-> p.Data, Err |-> p.Err]

\* util.ValueSet[T].XGo_0.
UtilFirst(p) ==
  LET q == Query(p, "XGo_0", 0)
  IN IF p.Err # NoErr
     THEN Outcome("XGo_0", 0, p.kind, ZeroVal(p.kind), p.Err, NewRun(q))
     ELSE LET st == Produce(q, NewRun(q))
          IN Outcome("XGo_0", 0, p.kind, st.val, st.err, st)

\* util.ValueSet[T].XGo_1.
UtilUnique(p) ==
  LET q == Query(p, "XGo_1", 0)
  IN IF p.Err # NoErr
     THEN Outcome("XGo_1", 0, p.kind, ZeroVal(p.kind), p.Err, NewRun(q))
     ELSE LET st == Produce(q, NewRun(q))
          IN Outcome("XGo_1", 0, p.kind, st.val, st.err, st)

\* util.ValueSet[T].XGo_Enum: NopIter when failed, else Data.
UtilEnum(p) ==
  IF p.Err # NoErr
  THEN [valid |-> TRUE, nop |-> TRUE, kind |-> p.kind, Data |-> NilData]
  ELSE [valid |-> TRUE, nop |-> FALSE, kind |-> p.kind, Data |-> p.Data]

UtilReduce(o) ==
  /\ ~panicked
  /\ invoked < MaxRuns
  /\ ulast' = IF o.st.panic THEN NoLast ELSE o
  /\ invoked' = invoked + o.st.invoked
  /\ panicked' = o.st.panic
  /\ UNCHANGED <<input, origin, set, chain, enum, last, io, uenum>>

UtilXGo_0 == set.kind = "ValueSet" /\ UtilReduce(UtilFirst(Twin(set)))

UtilXGo_1 == set.kind = "ValueSet" /\ UtilReduce(UtilUnique(Twin(set)))

UtilXGo_Enum ==
  /\ set.kind = "ValueSet" /\ ~panicked
  /\ uenum' = UtilEnum(Twin(set))
  /\ UNCHANGED <<input, origin, set, chain, enum, last, invoked, io, panicked, ulast>>

UtilRange(k) == uenum.valid /\ UtilReduce(Drive(uenum, k))

\* The (value, error) items of a caller's own iter.Seq[Value].
ValueInputs == {Value("v", NoErr), Value("", ErrNotFound), Value("w", UserError)}

\* The ValueSets the two packages are compared on: any terminal error over
\* a nil Data or a caller's own sequence of items, and XGo_Attr's sequences.
OwnValueSets ==
  {ValueSet(d, e) :
     d \in {NilData} \cup {SeqData(s) : s \in SeqsUpTo(ValueInputs, MaxBase)},
     e \in {NoErr, UserError}}

AttrValueSets ==
  {NodeSet_XGo_Attr(NodeSet(d, NoErr), name) :
     d \in SeqInputs \ {NilData}, name \in AttrNames}

InitValueSets ==
  /\ input = NoInput
  /\ (set \in OwnValueSets \/ set \in AttrValueSets)
  /\ origin = set
  /\ chain = set.Data.ops
  /\ enum = NoEnum
  /\ last = NoLast
  /\ invoked = 0
  /\ io = <<>>
  /\ panicked = FALSE
  /\ uenum = NoEnum
  /\ ulast = NoLast

NextValueSets ==
  \/ XGo_0
  \/ XGo_1
  \/ XGo_Enum
  \/ \E k \in 0..MaxTake : Range(k)
  \/ UtilXGo_0
  \/ UtilXGo_1
  \/ UtilXGo_Enum
  \/ \E k \in 0..MaxTake : UtilRange(k)

SpecValueSets == InitValueSets /\ [][NextValueSets]_vars

\* ---------------------------------------------------- reference values
\* The items a set's sequence produces when it is enumerated to the end.
Items(p) ==
  LET q == Query(p, "Drive", 0)
  IN Produce(q, NewRun(q)).seen[Top(q)]

\* The run recorded in last, and the level of its consumer.
Run == last.st

TopLevel == Len(set.Data.ops) + 1

Reduced == last.op \in {"XGo_0", "XGo_1"}

\* What an item carries: a node carries itself and no error.
ItemVal(kind, item) == IF kind = "NodeSet" THEN item ELSE item.X_0

ItemErr(kind, item) == IF kind = "NodeSet" THEN NoErr ELSE item.X_1

NoItems(st) == \A l \in Levels : st.seen[l] = <<>>

\* ---------------------------------------------------------------- C1
\* C1: on a set constructed in the failed state with error E, under every
\* chain of combinators, the derived set still carries E, XGo_0 and XGo_1
\* return exactly E, an enumeration delivers no item, and the backing
\* producer is never invoked.
Thm_C1_FailedShortCircuits ==
  origin.Err # NoErr =>
    /\ set.Err = origin.Err
    /\ invoked = 0
    /\ ~panicked
    /\ enum.valid => enum.nop
    /\ last.op # "none" => NoItems(Run) /\ Run.invoked = 0
    /\ Reduced => last.err = origin.Err /\ last.val = ZeroVal(last.kind)

Wit_C1_FailedShortCircuits ==
  /\ origin.Err = UserError
  /\ origin.Data.base # <<>>
  /\ Len(chain) = MaxChain
  /\ chain[1].op = "Child"
  /\ last.op = "XGo_1"
  /\ last.err = UserError

\* ---------------------------------------------------------------- C2
\* C2: on an ok-state set XGo_0 returns ErrNotFound when the sequence
\* produces no item, and otherwise the value and error of the first item
\* the sequence produces, never those of a later item.
Cex_C2_FirstItemOnly ==
  (last.op = "XGo_0" /\ set.Err = NoErr) =>
    LET items == Items(set)
    IN IF items = <<>>
       THEN last.err = ErrNotFound
       ELSE /\ last.err = ItemErr(set.kind, items[1])
            /\ last.val = ItemVal(set.kind, items[1])

\* ---------------------------------------------------------------- C3
\* C3: in a run of the sequence XGo_Attr produces, once the consumer has
\* returned false it is not invoked again and no further receiver node is
\* visited.
AttrLevel == Len(set.Data.ops)

IsAttrSet == set.kind = "ValueSet" /\ set.Err = NoErr

Cex_C3_AttrStops ==
  (last.op # "none" /\ IsAttrSet) =>
    /\ Run.lateCalls[TopLevel] = 0
    /\ Run.lateVisits[AttrLevel] = 0

\* ---------------------------------------------------------------- C4
\* C4: for XGo_Child and XGo_Any, once the downstream consumer returns
\* false no further item is delivered to it in that run, the stop is
\* returned to the receiver's producer, and no later receiver node is
\* visited.
Thm_C4_FlattenStops ==
  (last.op # "none" /\ set.Err = NoErr) =>
    \A l \in 1..Len(set.Data.ops) :
      set.Data.ops[l].op \in {"Child", "Any"} =>
        /\ Run.lateCalls[l + 1] = 0
        /\ Run.lateVisits[l] = 0
        /\ Run.stopped[l + 1] => Run.stopped[l]

\* A stop mid-way through the children of the first of two receiver nodes.
Wit_C4_FlattenStops ==
  /\ last.op = "XGo_1"
  /\ set.Err = NoErr
  /\ Len(set.Data.ops) = 1
  /\ set.Data.ops[1].op = "Child"
  /\ Run.stopped[2]
  /\ Len(Run.seen[1]) < Len(set.Data.base)
  /\ NextSibling[Run.seen[2][Len(Run.seen[2])]] # NilNode

\* ---------------------------------------------------------------- C5
\* C5: on an ok-state set XGo_1 returns ErrNotFound when the sequence
\* produces no item, the single item's value and error when it produces
\* exactly one, and ErrMultiEntities when it produces two or more, items
\* that carry an error counting like the others.
Thm_C5_UniqueByCount ==
  (last.op = "XGo_1" /\ set.Err = NoErr) =>
    LET items == Items(set)
    IN CASE Len(items) = 0 -> last.err = ErrNotFound
         [] Len(items) = 1 -> /\ last.err = ItemErr(set.kind, items[1])
                              /\ last.val = ItemVal(set.kind, items[1])
         [] OTHER -> last.err = ErrMultiEntities

\* Three nodes of which only the second has the attribute.
Wit_C5_UniqueByCount ==
  /\ last.op = "XGo_1"
  /\ IsAttrSet
  /\ Items(set) = <<Value("", ErrNotFound), Value("v", NoErr), Value("", ErrNotFound)>>
  /\ last.err = ErrMultiEntities

\* ---------------------------------------------------------------- C6
\* C6: a reducer that returns a non-nil error returns the zero value with
\* it; in particular XGo_1 returns ErrMultiEntities with the zero value,
\* not with the first item's value.
Cex_C6_ErrorMeansZeroValue ==
  (Reduced /\ last.err # NoErr) => last.val = ZeroVal(last.kind)

\* ---------------------------------------------------------------- C7
\* C7: in one call of XGo_1 the consumer callback is invoked at most twice
\* and no receiver node is visited after the one that produced the second
\* item.
Cex_C7_UniqueStopsAtSecond ==
  (last.op = "XGo_1" /\ set.Err = NoErr) =>
    /\ Len(Run.seen[TopLevel]) <= 2
    /\ TopLevel > 1 => Run.lateVisits[TopLevel - 1] = 0

\* ------------------------------------------------ document reference
\* Node ids are assigned in document order.
DocOrder == [i \in Nodes |-> i]

RECURSIVE IsAncestor(_, _)
IsAncestor(a, m) ==
  Parent[m] # NilNode /\ (Parent[m] = a \/ IsAncestor(a, Parent[m]))

DescendantsOf(n) == LET Below(m) == IsAncestor(n, m) IN SelectSeq(DocOrder, Below)

ChildrenOf(n) == LET ChildOfN(m) == Parent[m] = n IN SelectSeq(DocOrder, ChildOfN)

RECURSIVE ConcatInclusive(_)
ConcatInclusive(s) ==
  IF s = <<>> THEN <<>>
  ELSE <<Head(s)>> \o DescendantsOf(Head(s)) \o ConcatInclusive(Tail(s))

RECURSIVE ConcatChildren(_)
ConcatChildren(s) ==
  IF s = <<>> THEN <<>> ELSE ChildrenOf(Head(s)) \o ConcatChildren(Tail(s))

NoDuplicates(s) == \A i, j \in DOMAIN s : s[i] = s[j] => i = j

\* No node of s is another node of s or a descendant of one.
NonNested(s) ==
  \A i, j \in DOMAIN s : i # j => s[i] # s[j] /\ ~IsAncestor(s[i], s[j])

\* The set the last combinator was applied to, and that combinator.
Receiver ==
  NodeSet([set.Data EXCEPT !.ops = SubSeq(@, 1, Len(@) - 1)], NoErr)

LastOp == set.Data.ops[Len(set.Data.ops)]

FullyEnumerated(o) ==
  /\ last.op = "Drive" /\ last.k = 0
  /\ set.Err = NoErr
  /\ set.Data.ops # <<>>
  /\ LastOp.op = o

\* ---------------------------------------------------------------- C8
\* C8 as stated: S.XGo_Any() enumerated to the end yields, for each node of
\* S in receiver order, the node followed by its descendants in document
\* order, and the enumeration holds no node twice, also when nodes of S are
\* nested in one another.
Cex_C8_NoDuplicatesAtAll ==
  FullyEnumerated("Any") =>
    /\ Run.seen[TopLevel] = ConcatInclusive(Items(Receiver))
    /\ NoDuplicates(Run.seen[TopLevel])

\* C8 as amended: the enumeration is exactly the concatenation, in receiver
\* order, of each node of S followed by its descendants in document order;
\* it holds no node twice when no node of S is equal to or nested in
\* another.
Thm_C8_SegmentsInOrder ==
  FullyEnumerated("Any") =>
    /\ Run.seen[TopLevel] = ConcatInclusive(Items(Receiver))
    /\ NonNested(Items(Receiver)) => NoDuplicates(Run.seen[TopLevel])

\* S is itself the result of XGo_Any on the document root.
Wit_C8_SegmentsInOrder ==
  /\ FullyEnumerated("Any")
  /\ Items(Receiver) = <<1, 2, 3, 4, 5, 6>>
  /\ Run.seen[TopLevel] = <<1, 2, 3, 4, 5, 6, 2, 3, 4, 5, 6, 3, 4, 4, 5, 6>>

\* ---------------------------------------------------------------- C9
\* C9: S.XGo_Attr(name) enumerated to the end yields one Value per node of
\* S, in receiver order: the value of the first attribute of the node whose
\* key is name, or ErrNotFound when the node has none.
ExpectedAttr(n, name) ==
  LET idx == {i \in DOMAIN NodeAttr[n] : NodeAttr[n][i].Key = name}
  IN IF idx = {} THEN Value("", ErrNotFound)
     ELSE Value(NodeAttr[n][CHOOSE i \in idx : \A j \in idx : i <= j].Val, NoErr)

Thm_C9_OneValuePerNode ==
  FullyEnumerated("Attr") =>
    LET recv == Items(Receiver)
        out == Run.seen[TopLevel]
    IN /\ Len(out) = Len(recv)
       /\ \A i \in DOMAIN recv :
            LET e == ExpectedAttr(recv[i], LastOp.name)
            IN /\ out[i].X_1 = e.X_1
               /\ e.X_1 = NoErr => out[i].X_0 = e.X_0

\* A node without the attribute, then the node that has it twice.
Wit_C9_OneValuePerNode ==
  /\ FullyEnumerated("Attr")
  /\ LastOp.name = "x"
  /\ Items(Receiver) = <<3, 5, 6>>
  /\ Run.seen[TopLevel] =
       <<Value("", ErrNotFound), Value("v", NoErr), Value("", ErrNotFound)>>

\* --------------------------------------------------------------- C10
\* C10: S.XGo_Child() enumerated to the end yields the direct children of
\* every node of S, each node's children in document order, concatenated in
\* receiver order; a node without children contributes nothing and does
\* not end the enumeration.
Thm_C10_ChildrenConcatenated ==
  FullyEnumerated("Child") =>
    Run.seen[TopLevel] = ConcatChildren(Items(Receiver))

\* A leaf first, then a node with three children.
Wit_C10_ChildrenConcatenated ==
  /\ FullyEnumerated("Child")
  /\ Items(Receiver) = <<5, 2>>
  /\ Run.seen[TopLevel] = <<3, 5, 6>>

\* --------------------------------------------------------------- C11
\* C11: S.XGo_Node(name) enumerated to the end yields the items of S, in
\* S's order, that are element nodes whose tag is name; other nodes are
\* skipped without ending the enumeration, and a set in which nothing
\* matches reduces to ErrNotFound.
Matching(s, name) ==
  LET IsNamed(n) == NodeType[n] = "Element" /\ NodeData[n] = name
  IN SelectSeq(s, IsNamed)

Thm_C12_Lazy ==
  [][ /\ (chain' # chain \/ enum' # enum) =>
           /\ invoked' = invoked
           /\ panicked' = panicked
           /\ set'.Err = NoErr =>
                /\ set'.Data.rootNil = origin.Data.rootNil
                /\ set'.Data.base = origin.Data.base
                /\ set'.Data.ops = chain'
           /\ (enum'.valid /\ ~enum'.nop) => enum'.Data = set'.Data
      /\ invoked' # invoked =>
           \/ last'.op \in {"XGo_0", "XGo_1", "Drive"}
           \/ ulast'.op \in {"XGo_0", "XGo_1", "Drive"}
    ]_vars

Wit_C12_Lazy ==
  /\ set.Err = NoErr
  /\ set.Data.base # <<>>
  /\ Len(chain) = MaxChain
  /\ chain[1].op = "Any"
  /\ enum.valid /\ ~enum.nop
  /\ invoked = 0

\* --------------------------------------------------------------- C13
\* C13: for a string source, a failed open gives the failed set carrying
\* the open error and the parser is not called; after a successful open
\* the stream is closed exactly once, after the parse, whether the parse
\* succeeded or failed.
Count(s, x) == Cardinality({i \in DOMAIN s : s[i] = x})

Thm_C13_OpenedStreamClosed ==
  input.type = "string" =>
    IF input.openErr # NoErr
    THEN /\ origin = NodeSet(NilData, input.openErr)
         /\ Count(io, "parse") = 0
         /\ Count(io, "close") = 0
    ELSE /\ Count(io, "close") = 1
         /\ Count(io, "parse") = 1
         /\ io[Len(io)] = "close"
         /\ origin.kind = "NodeSet"

Wit_C13_OpenedStreamClosed ==
  /\ input.type = "string"
  /\ input.openErr = NoErr
  /\ input.parseErr = ParseError
  /\ io = <<"open", "parse", "close">>
  /\ origin.Err = ParseError

\* --------------------------------------------------------------- C14
\* C14: after a successful parse New returns an ok-state set whose
\* sequence yields the root node and nothing else; after a failed parse it
\* returns the failed set carrying the parser's error, which every reducer
\* then returns.
Parsed == Count(io, "parse") = 1

Thm_C14_NewWrapsParse ==
  Parsed =>
    IF input.parseErr # NoErr
    THEN /\ origin.Err = input.parseErr
         /\ Reduced => last.err = input.parseErr
    ELSE /\ origin.Err = NoErr
         /\ Items(origin) = <<DocRoot>>
         /\ (chain = <<>> /\ last.op # "none") => Run.seen[1] = <<DocRoot>>
         /\ (chain = <<>> /\ Reduced) => last.val = DocRoot /\ last.err = NoErr

Wit_C14_NewWrapsParse ==
  /\ input.type = "reader"
  /\ input.parseErr = ParseError
  /\ chain # <<>>
  /\ last.op = "XGo_0"
  /\ last.err = ParseError

\* --------------------------------------------------------------- C15
\* C15: Source uses a node sequence as the set's Data without parsing,
\* returns a NodeSet argument unchanged without parsing, hands bytes, a
\* reader and an opened string source to the parser, and panics on any
\* other argument instead of returning a set.
Thm_C15_SourceDispatch ==
  CASE input.type = "seq" -> origin = NodeSet(input.data, NoErr) /\ io = <<>>
    [] input.type = "NodeSet" -> origin = NodeSet(input.data, input.err) /\ io = <<>>
    [] input.type \in {"bytes", "reader"} -> Parsed
    [] input.type = "string" -> (input.openErr = NoErr) = Parsed
    [] input.type = "other" -> panicked /\ origin = NoSet /\ set = NoSet /\ io = <<>>
    [] OTHER -> origin = NoSet

Wit_C15_SourceDispatch ==
  /\ input.type = "NodeSet"
  /\ input.err = UserError
  /\ input.data.base # <<>>
  /\ origin = NodeSet(input.data, UserError)

\* --------------------------------------------------------------- C16
\* C16: every set is either failed (Err set) or ok (Err nil and Data a
\* callable producer), and no reducer invokes an absent producer: the
\* program panics on an unsupported Source argument only.
IsNilFunc(d) == d.rootNil /\ d.ops = <<>>

Cex_C16_TwoStates ==
  /\ set.kind # "none" => (set.Err # NoErr \/ ~IsNilFunc(set.Data))
  /\ panicked => input.type = "other"

====
